---------------------------- MODULE Spec2Model ----------------------------
(***************************************************************************)
(* A model of christmas_tree.py: the LightController patterns drawn on a   *)
(* WS2811 strip, the colour arithmetic of alter_brightness, and the        *)
(* unbounded demo loop of LightController.Run.                             *)
(***************************************************************************)
EXTENDS Integers, Sequences, FiniteSets, TLC

(***************************************************************************)
(* IEEE-754 binary64 arithmetic, as far as alter_brightness needs it.      *)
(* A brightness is the double nearest to num/den (Python's true division   *)
(* of two small integers, or a literal such as 0.4); a channel (0..255)    *)
(* times that double is rounded to a double again and truncated by int().  *)
(* A 53-bit mantissa is kept as five limbs, most significant first: the    *)
(* leading 1 and four limbs of 13 bits, so that no intermediate value      *)
(* leaves the range of the model checker's integers.                       *)
(***************************************************************************)
Limb == 2 ^ 13

RECURSIVE Shift(_, _)
\* The least s >= 0 with num * 2^s >= den (num > 0): num/den = 1.xxx * 2^-s.
Shift(num, den) == IF num >= den THEN 0 ELSE 1 + Shift(2 * num, den)

RECURSIVE BitLen(_)
BitLen(n) == IF n = 0 THEN 0 ELSE 1 + BitLen(n \div 2)

RECURSIVE DivLimbs(_, _, _)
\* n quotient limbs of rem/den by long division, and the final remainder.
DivLimbs(rem, den, n) ==
    IF n = 0 THEN [limbs |-> << >>, rem |-> rem]
    ELSE LET r    == rem * Limb
             rest == DivLimbs(r % den, den, n - 1)
         IN  [limbs |-> <<r \div den>> \o rest.limbs, rem |-> rest.rem]

RECURSIVE AddLow(_, _)
\* limbs + k, the carry running up from the lowest limb; the top limb takes
\* whatever is left and is not reduced.
AddLow(limbs, k) ==
    LET n == Len(limbs)
        t == limbs[n] + k
    IN  IF n = 1 THEN <<t>>
        ELSE AddLow(SubSeq(limbs, 1, n - 1), t \div Limb) \o <<t % Limb>>

RECURSIVE MulLimbs(_, _, _)
\* limbs * ch + carry, exactly; the top limb takes the last carry.
MulLimbs(limbs, ch, carry) ==
    LET n == Len(limbs)
        t == limbs[n] * ch + carry
    IN  IF n = 1 THEN <<t>>
        ELSE MulLimbs(SubSeq(limbs, 1, n - 1), ch, t \div Limb) \o <<t % Limb>>

\* A variant of RoundsUp: rounding toward zero, as truncating arithmetic does.
RoundsTowardZero(guard, sticky, odd) == FALSE

\* Round-to-nearest, ties-to-even (the IEEE default, which Python uses):
\* 'guard' is the first dropped bit, 'sticky' whether anything below it is
\* non-zero, 'odd' whether the last kept bit is 1.
RoundsUp(guard, sticky, odd) == guard /\ (sticky \/ odd)

\* The double nearest to num/den for 0 < num <= den: mant * 2^-(52 + shift).
FloatDiv(num, den) ==
    LET s      == Shift(num, den)
        q      == DivLimbs(num * (2 ^ s) - den, den, 5)
        kept   == <<1>> \o SubSeq(q.limbs, 1, 4)
        g      == q.limbs[5]
        guard  == g >= Limb \div 2
        sticky == (g % (Limb \div 2) # 0) \/ (q.rem # 0)
        odd    == kept[5] % 2 = 1
    IN  [mant  |-> IF RoundsUp(guard, sticky, odd) THEN AddLow(kept, 1) ELSE kept,
         shift |-> s]

\* int(ch * f) for a channel 0..255 and a double f = FloatDiv(num, den) <= 1:
\* the exact product is rounded to 53 significant bits, then truncated.  The
\* product is top * 2^52 + (four limbs), scaled by 2^-(52 + shift), so its
\* integer part is the top limb shifted right, once rounding has carried.
FloatMulInt(ch, f) ==
    IF ch = 0 THEN 0
    ELSE LET exact  == MulLimbs(f.mant, ch, 0)
             drop   == BitLen(exact[1]) - 1
             unit   == 2 ^ drop
             low    == exact[5] % unit
             guard  == drop > 0 /\ 2 * low >= unit
             sticky == drop > 0 /\ (2 * low) % unit # 0
             odd    == (exact[5] \div unit) % 2 = 1
             prod   == IF RoundsUp(guard, sticky, odd)
                       THEN AddLow(exact, unit - low) ELSE exact
         IN  prod[1] \div (2 ^ f.shift)

\* int(channel * brightness) in Python, brightness being num / den <= 1.
ScaleChannel(ch, num, den) ==
    IF num = 0 THEN 0 ELSE FloatMulInt(ch, FloatDiv(num, den))


(***************************************************************************)
(* Colours.  rpi_ws281x.Color packs red, green, blue into 24 bits.         *)
(***************************************************************************)
Color(red, green, blue) == red * 65536 + green * 256 + blue

Colors == {"NONE", "WARM_WHITE", "CRYSTAL_BLUE", "CRYSTAL_RED",
           "CRYSTAL_GREEN", "PURE_WHITE"}

\* Colors.<name>.value
ColorValue(c) ==
    CASE c = "NONE"          -> Color(0, 0, 0)
      [] c = "WARM_WHITE"    -> Color(255, 147, 41)
      [] c = "CRYSTAL_BLUE"  -> Color(0, 67, 255)
      [] c = "CRYSTAL_RED"   -> Color(255, 0, 0)
      [] c = "CRYSTAL_GREEN" -> Color(0, 255, 0)
      [] c = "PURE_WHITE"    -> Color(255, 255, 255)

_DEMO_COLORS == <<"CRYSTAL_BLUE", "CRYSTAL_RED", "CRYSTAL_GREEN", "PURE_WHITE">>

\* (value >> 16) & 0xFF, (value >> 8) & 0xFF, value & 0xFF
RedOf(v)   == (v \div 65536) % 256
GreenOf(v) == (v \div 256) % 256
BlueOf(v)  == v % 256

\* The brightness denominators the patterns use: 10 (draw_and_erase, pulse,
\* christmas_colors) and every trail length of vapor_trail.
MaxTrail == 13
_NUM_LEDS == 150
RunTrail == 20
DefaultTrail == 10

Denominators == {1, 2, 10, DefaultTrail, RunTrail, MaxTrail, MaxTrail + 1}

ChannelValues ==
    UNION {{RedOf(ColorValue(c)), GreenOf(ColorValue(c)), BlueOf(ColorValue(c))} :
           c \in Colors}

\* ScaleChannel tabulated once over the arguments the patterns pass.
ScaleTable ==
    [k \in {<<ch, num, den>> \in ChannelValues \X (0..RunTrail) \X Denominators :
              num <= den}
       |-> ScaleChannel(k[1], k[2], k[3])] @@ << >>

Scaled(ch, num, den) ==
    IF <<ch, num, den>> \in DOMAIN ScaleTable
    THEN ScaleTable[<<ch, num, den>>] ELSE ScaleChannel(ch, num, den)

\* alter_brightness(color, brightness), the brightness being num / den.
alter_brightness(color, num, den) ==
    LET v == ColorValue(color)
    IN  Color(Scaled(RedOf(v), num, den),
              Scaled(GreenOf(v), num, den),
              Scaled(BlueOf(v), num, den))


(***************************************************************************)
(* State.                                                                  *)
(***************************************************************************)
VARIABLES
    numPixels,   \* self._num_pixels, from strip.numPixels()
    pixels,      \* the strip's LED buffer: [0..numPixels-1 -> 24-bit colour]
    stack,       \* the call stack, innermost activation first
    writes,      \* the _set_pixel_color calls of the step just taken, in order
    shown,       \* whether the step just taken ended in _show_with_delay
    headVisits,  \* per pixel: the frames of the current draw_and_erase range
                 \* in which it got the ramp's first (brightness 1.0) write
    calls,       \* the pattern calls made by Run in its current cycle, in order
    scaled       \* the latest direct call of alter_brightness: its arguments
                 \* and its result (<< >> before the first)

vars == <<numPixels, pixels, stack, writes, shown, headVisits, calls, scaled>>

\* One activation of a LightController method: its arguments, the loop (or
\* statement) it is in (pcl; "call" on entry), its loop variable as last
\* assigned (i) and the number of show() calls it has made itself.
Activation(fn, color, second, trail, colors) ==
    [fn |-> fn, color |-> color, second |-> second, trail |-> trail,
     colors |-> colors, pcl |-> "call", i |-> 0, shows |-> 0]

\* One call self._set_pixel_color(index, color, brightness = num / den),
\* tagged with the source line of the call.
Write(line, index, color, num, den) ==
    [line |-> line, index |-> index, color |-> color, num |-> num, den |-> den]

Top == Head(stack)

Running(fn) == stack # << >> /\ Top.fn = fn

\* self._strip.setPixelColor for every call of a frame, in order: a slot
\* holds the value of the last write to it.  ws2811_led_set ignores an
\* index that is not below the strip's count.
_set_pixel_color(buf, ws) ==
    [p \in DOMAIN buf |->
        LET hits == {k \in 1..Len(ws) : ws[k].index = p}
        IN  IF hits = {} THEN buf[p]
            ELSE LET last == CHOOSE k \in hits : \A j \in hits : j <= k
                 IN  alter_brightness(ws[last].color, ws[last].num, ws[last].den)]

NoVisits == [p \in 0..(numPixels - 1) |-> 0]

\* A step that only passes control: nothing is written, nothing shown.
NoFrame ==
    /\ writes' = << >>
    /\ shown' = FALSE
    /\ UNCHANGED pixels

\* A frame: the writes reach the buffer, then _show_with_delay shows it;
\* the activation is left in loop pcl with loop variable i.
Frame(ws, pcl, i) ==
    /\ writes' = ws
    /\ shown' = TRUE
    /\ pixels' = _set_pixel_color(pixels, ws)
    /\ stack' = <<[Top EXCEPT !.pcl = pcl, !.i = i, !.shows = @ + 1]>> \o Tail(stack)

(***************************************************************************)
(* The patterns, one action per method; a step runs up to the next         *)
(* _show_with_delay (one frame) or up to the next call.                    *)
(***************************************************************************)
single_color ==
    /\ Running("single_color") /\ Top.pcl = "call"
    /\ Frame([k \in 1..numPixels |-> Write(183, k - 1, Top.color, 1, 1)], "shown", 0)
    /\ UNCHANGED <<numPixels, headVisits, calls, scaled>>

\* A variant of AlternatingFrame: the two colours taken in the other order.
AlternatingFrameSwapped(first, second) ==
    [k \in 1..(2 * ((numPixels + 1) \div 2)) |->
        IF k % 2 = 1 THEN Write(175, k - 1, second, 1, 1)
                     ELSE Write(176, k - 1, first, 1, 1)]

\* for i in range(0, N, 2): writes i and i + 1.
AlternatingFrame(first, second) ==
    [k \in 1..(2 * ((numPixels + 1) \div 2)) |->
        IF k % 2 = 1 THEN Write(175, k - 1, first, 1, 1)
                     ELSE Write(176, k - 1, second, 1, 1)]

alternating_colors ==
    /\ Running("alternating_colors") /\ Top.pcl = "call"
    /\ Frame(AlternatingFrame(Top.color, Top.second), "shown", 0)
    /\ UNCHANGED <<numPixels, headVisits, calls, scaled>>

\* for i in range(0, N, 3): writes i, i + 1 and i + 2; then two shows.
christmas_colors ==
    /\ Running("christmas_colors")
    /\ \/ /\ Top.pcl = "call"
          /\ Frame([k \in 1..(3 * ((numPixels + 2) \div 3)) |->
                       CASE k % 3 = 1 -> Write(93, k - 1, "PURE_WHITE", 4, 10)
                         [] k % 3 = 2 -> Write(94, k - 1, "CRYSTAL_RED", 4, 10)
                         [] k % 3 = 0 -> Write(95, k - 1, "CRYSTAL_GREEN", 4, 10)],
                   "draw", 0)
       \/ /\ Top.pcl = "draw"
          /\ Frame(<< >>, "hold", 0)
    /\ UNCHANGED <<numPixels, headVisits, calls, scaled>>

\* The frame of pulse for one brightness (lines 104-107 and 111-114).
PulseFrame(line, color, brightness) ==
    [k \in 1..numPixels |-> Write(line, k - 1, color, brightness, 10)]

\* A variant of PulseDownFrom: the downward loop as range(9, 1, -1).
PulseDownFromNine == 10 - 1

\* The first value of the downward loop, range(10, 1, -1).
PulseDownFrom == 10

\* for brightness in range(1, 10), then for brightness in range(10, 1, -1).
pulse ==
    /\ Running("pulse")
    /\ \/ /\ Top.pcl = "call"
          /\ Frame(PulseFrame(105, Top.color, 1), "up", 1)
       \/ /\ Top.pcl = "up" /\ Top.i + 1 < 10
          /\ Frame(PulseFrame(105, Top.color, Top.i + 1), "up", Top.i + 1)
       \/ /\ Top.pcl = "up" /\ ~(Top.i + 1 < 10)
          /\ Frame(PulseFrame(112, Top.color, PulseDownFrom), "down", PulseDownFrom)
       \/ /\ Top.pcl = "down" /\ Top.i - 1 > 1
          /\ Frame(PulseFrame(112, Top.color, Top.i - 1), "down", Top.i - 1)
    /\ UNCHANGED <<numPixels, headVisits, calls, scaled>>

\* The frame of draw_and_erase for one led_idx (lines 78-86).
DrawFrame(led_idx, color) ==
    LET lower_bound == IF led_idx - 10 > 0 THEN led_idx - 10 ELSE 0
        ramp == [k \in 1..(led_idx - lower_bound) |->
                    Write(82, led_idx - (k - 1), color, 10 - (k - 1), 10)]
    IN  IF lower_bound > 0
        THEN ramp \o <<Write(86, lower_bound, "NONE", 1, 1)>>
        ELSE ramp

\* color = draw_color if range_idx else eraser
RangeColor(range_idx, draw_color, eraser) ==
    IF range_idx # 0 THEN draw_color ELSE eraser

\* 'seen' with the pixels counted that got the ramp's first write
\* (bright_idx 0, brightness 10 / 10.0) in the frame ws.
Visited(seen, ws) ==
    [p \in DOMAIN seen |->
        seen[p] +
        IF \E k \in 1..Len(ws) :
              ws[k].line = 82 /\ ws[k].index = p /\ ws[k].num = ws[k].den
        THEN 1 ELSE 0]

\* One frame of range number range_idx at led_idx.
DrawStep(pcl, range_idx, led_idx, seen) ==
    LET ws == DrawFrame(led_idx, RangeColor(range_idx, Top.color, Top.second))
    IN  /\ Frame(ws, pcl, led_idx)
        /\ headVisits' = Visited(seen, ws)

\* range(N) as range_idx 0, then range(N, 0, -1) as range_idx 1.
draw_and_erase ==
    /\ Running("draw_and_erase")
    /\ \/ /\ Top.pcl = "call"
          /\ DrawStep("range0", 0, 0, NoVisits)
       \/ /\ Top.pcl = "range0" /\ Top.i + 1 < numPixels
          /\ DrawStep("range0", 0, Top.i + 1, headVisits)
       \/ /\ Top.pcl = "range0" /\ ~(Top.i + 1 < numPixels)
          /\ DrawStep("range1", 1, numPixels, NoVisits)
       \/ /\ Top.pcl = "range1" /\ Top.i - 1 > 0
          /\ DrawStep("range1", 1, Top.i - 1, headVisits)
    /\ UNCHANGED <<numPixels, calls, scaled>>

\* A variant of TrailFrame: the head pixel reset before the trail is drawn.
TrailFrameResetFirst(led_idx, color, trail, trail_color) ==
    <<Write(169, led_idx, trail_color, 1, 1)>> \o
    [k \in 1..trail |->
        Write(164, (led_idx + (k - 1)) % numPixels, color, k - 1, trail)]

\* The frame of vapor_trail for one led_idx (lines 160-169).
TrailFrame(led_idx, color, trail, trail_color) ==
    LET ahead == [k \in 1..trail |->
                     Write(164, (led_idx + (k - 1)) % numPixels, color, k - 1, trail)]
    IN  IF led_idx >= 0
        THEN ahead \o <<Write(169, led_idx, trail_color, 1, 1)>>
        ELSE ahead

\* for led_idx in range(N)
vapor_trail ==
    /\ Running("vapor_trail")
    /\ \/ /\ Top.pcl = "call"
          /\ Frame(TrailFrame(0, Top.color, Top.trail, Top.second), "loop", 0)
       \/ /\ Top.pcl = "loop" /\ Top.i + 1 < numPixels
          /\ Frame(TrailFrame(Top.i + 1, Top.color, Top.trail, Top.second),
                   "loop", Top.i + 1)
    /\ UNCHANGED <<numPixels, headVisits, calls, scaled>>

\* The calls, as the callers make them.
CallSingleColor(color) ==
    Activation("single_color", color, "NONE", 0, << >>)
CallAlternatingColors(first, second) ==
    Activation("alternating_colors", first, second, 0, << >>)
CallPulse(color) ==
    Activation("pulse", color, "NONE", 0, << >>)
CallPulseBetween(colors) ==
    Activation("pulse_between", "NONE", "NONE", 0, colors)
CallChristmasColors ==
    Activation("christmas_colors", "NONE", "NONE", 0, << >>)
CallCandyCane ==
    Activation("candy_cane", "NONE", "NONE", 0, << >>)
CallDrawAndErase(draw_color, eraser) ==
    Activation("draw_and_erase", draw_color, eraser, 0, << >>)
CallVaporTrail(color, trail, trail_color) ==
    Activation("vapor_trail", color, trail_color, trail, << >>)

\* for color in colors: self.pulse(color, wait_ms); i counts the colours
\* taken so far.
pulse_between ==
    /\ Running("pulse_between") /\ Top.i < Len(Top.colors)
    /\ stack' = <<CallPulse(Top.colors[Top.i + 1]),
                  [Top EXCEPT !.pcl = "loop", !.i = @ + 1]>> \o Tail(stack)
    /\ NoFrame
    /\ UNCHANGED <<numPixels, headVisits, calls, scaled>>

\* The white base and one show, then the red chaser (trail left at its
\* default) over it.
candy_cane ==
    /\ Running("candy_cane")
    /\ \/ /\ Top.pcl = "call"
          /\ Frame([k \in 1..numPixels |-> Write(125, k - 1, "PURE_WHITE", 1, 1)],
                   "base", 0)
       \/ /\ Top.pcl = "base"
          /\ stack' = <<CallVaporTrail("CRYSTAL_RED", DefaultTrail, "PURE_WHITE"),
                        [Top EXCEPT !.pcl = "chaser"]>> \o Tail(stack)
          /\ NoFrame
    /\ UNCHANGED <<numPixels, headVisits, calls, scaled>>

\* Whether an activation has run off the end of its method.
Finished(act) ==
    CASE act.fn = "single_color"       -> act.pcl = "shown"
      [] act.fn = "alternating_colors" -> act.pcl = "shown"
      [] act.fn = "christmas_colors"   -> act.pcl = "hold"
      [] act.fn = "pulse"              -> act.pcl = "down" /\ ~(act.i - 1 > 1)
      [] act.fn = "pulse_between"      -> ~(act.i < Len(act.colors))
      [] act.fn = "candy_cane"         -> act.pcl = "chaser"
      [] act.fn = "draw_and_erase"     -> act.pcl = "range1" /\ ~(act.i - 1 > 0)
      [] act.fn = "vapor_trail"        -> act.pcl = "loop" /\ ~(act.i + 1 < numPixels)
      [] act.fn = "Run"                -> FALSE   \* while True

\* A method returns to its caller.
Return ==
    /\ stack # << >> /\ Finished(Top)
    /\ stack' = Tail(stack)
    /\ headVisits' = NoVisits
    /\ NoFrame
    /\ UNCHANGED <<numPixels, calls, scaled>>

Patterns ==
    \/ single_color
    \/ alternating_colors
    \/ christmas_colors
    \/ pulse
    \/ pulse_between
    \/ candy_cane
    \/ draw_and_erase
    \/ vapor_trail
    \/ Return

(***************************************************************************)
(* The program: LightController(strip).Run() on a strip of _NUM_LEDS.      *)
(***************************************************************************)
\* A variant of RunNext: candy_cane left out of the cycle.
RunNextSkipsCandyCane(pcl, i) ==
    LET more == i < Len(_DEMO_COLORS)
    IN  CASE pcl = "call"               -> <<"single_color", 0>>
          [] pcl = "single_color"       -> <<"alternating_colors", 0>>
          [] pcl = "alternating_colors" -> <<"pulse_between", 0>>
          [] pcl = "pulse_between"      -> <<"pulse", 1>>
          [] pcl = "pulse" ->
                IF more THEN <<"pulse", i + 1>> ELSE <<"christmas_colors", 0>>
          [] pcl = "christmas_colors"   -> <<"draw_and_erase", 1>>
          [] pcl = "draw_and_erase" ->
                IF more THEN <<"draw_and_erase", i + 1>> ELSE <<"vapor_trail", 1>>
          [] pcl = "vapor_trail" ->
                IF more THEN <<"vapor_trail", i + 1>> ELSE <<"single_color", 0>>

\* The statement of the body of 'while True' that follows statement pcl
\* with loop variable i (an index into _DEMO_COLORS): a for loop stays
\* until the colours run out, the last statement leads back to the first.
RunNext(pcl, i) ==
    LET more == i < Len(_DEMO_COLORS)
    IN  CASE pcl = "call"               -> <<"single_color", 0>>
          [] pcl = "single_color"       -> <<"alternating_colors", 0>>
          [] pcl = "alternating_colors" -> <<"pulse_between", 0>>
          [] pcl = "pulse_between"      -> <<"pulse", 1>>
          [] pcl = "pulse" ->
                IF more THEN <<"pulse", i + 1>> ELSE <<"christmas_colors", 0>>
          [] pcl = "christmas_colors"   -> <<"candy_cane", 0>>
          [] pcl = "candy_cane"         -> <<"draw_and_erase", 1>>
          [] pcl = "draw_and_erase" ->
                IF more THEN <<"draw_and_erase", i + 1>> ELSE <<"vapor_trail", 1>>
          [] pcl = "vapor_trail" ->
                IF more THEN <<"vapor_trail", i + 1>> ELSE <<"single_color", 0>>

\* The call Run makes at statement pcl.
RunCall(pcl, i) ==
    CASE pcl = "single_color"       -> CallSingleColor("CRYSTAL_BLUE")
      [] pcl = "alternating_colors" -> CallAlternatingColors("CRYSTAL_BLUE", "PURE_WHITE")
      [] pcl = "pulse_between"      -> CallPulseBetween(<<"WARM_WHITE", "CRYSTAL_BLUE">>)
      [] pcl = "pulse"              -> CallPulse(_DEMO_COLORS[i])
      [] pcl = "christmas_colors"   -> CallChristmasColors
      [] pcl = "candy_cane"         -> CallCandyCane
      [] pcl = "draw_and_erase"     -> CallDrawAndErase(_DEMO_COLORS[i], "WARM_WHITE")
      [] pcl = "vapor_trail"        -> CallVaporTrail(_DEMO_COLORS[i], RunTrail, "NONE")

Run ==
    /\ Running("Run")
    /\ LET at   == RunNext(Top.pcl, Top.i)
           call == RunCall(at[1], at[2])
       IN  /\ stack' = <<call, [Top EXCEPT !.pcl = at[1], !.i = at[2]]>> \o Tail(stack)
           /\ calls' = IF at[1] = "single_color" THEN <<call>> ELSE Append(calls, call)
    /\ NoFrame
    /\ UNCHANGED <<numPixels, headVisits, scaled>>

\* After PixelStrip(num=_NUM_LEDS, ...), LightController(strip) and the call
\* of Run: a dark buffer, Run entered.
Init ==
    /\ numPixels = _NUM_LEDS
    /\ pixels = [p \in 0..(numPixels - 1) |-> 0]
    /\ stack = <<Activation("Run", "NONE", "NONE", 0, << >>)>>
    /\ writes = << >>
    /\ shown = FALSE
    /\ headVisits = NoVisits
    /\ calls = << >>
    /\ scaled = << >>

Next == Run \/ Patterns

Spec == Init /\ [][Next]_vars

(***************************************************************************)
(* The controller as a library: any pattern, with any arguments, on a      *)
(* strip of any of a few lengths, one call after the other.                *)
(***************************************************************************)
MaxPixels == 12

\* A short odd strip, a short even one, and one longer than the ramp of
\* draw_and_erase.
StripLengths == {3, 4, MaxPixels}

Trails == {1, 2, DefaultTrail, MaxTrail}

ColorLists == {<< >>, <<"WARM_WHITE", "CRYSTAL_BLUE">>, _DEMO_COLORS}

ApiColors == {"NONE", "WARM_WHITE", "CRYSTAL_BLUE", "CRYSTAL_RED"}

ApiCalls ==
    {CallSingleColor(a) : a \in ApiColors}
    \cup {CallAlternatingColors(a, b) : a \in ApiColors, b \in ApiColors}
    \cup {CallPulse(a) : a \in ApiColors}
    \cup {CallPulseBetween(cs) : cs \in ColorLists}
    \cup {CallChristmasColors, CallCandyCane}
    \cup {CallDrawAndErase(a, b) : a \in ApiColors, b \in ApiColors}
    \cup {CallVaporTrail(a, t, b) : a \in ApiColors, t \in Trails, b \in ApiColors}

\* A call from outside, once the previous one has returned.
Call ==
    /\ stack = << >>
    /\ \E act \in ApiCalls : stack' = <<act>>
    /\ NoFrame
    /\ UNCHANGED <<numPixels, headVisits, calls, scaled>>

ApiInit ==
    /\ numPixels \in StripLengths
    /\ pixels = [p \in 0..(numPixels - 1) |-> 0]
    /\ stack = << >>
    /\ writes = << >>
    /\ shown = FALSE
    /\ headVisits = NoVisits
    /\ calls = << >>
    /\ scaled = << >>

ApiNext == Call \/ Patterns

ApiSpec == ApiInit /\ [][ApiNext]_vars

(***************************************************************************)
(* alter_brightness called on its own: any named colour, any brightness    *)
(* num / den the patterns use.                                             *)
(***************************************************************************)
Brightnesses == {b \in (0..RunTrail) \X Denominators : b[1] <= b[2]}

AlterBrightness ==
    /\ \E color \in Colors, b \in Brightnesses :
          scaled' = [color |-> color, num |-> b[1], den |-> b[2],
                     value |-> alter_brightness(color, b[1], b[2])]
    /\ UNCHANGED <<numPixels, pixels, stack, writes, shown, headVisits, calls>>

ScaleNext == AlterBrightness

ScaleSpec == ApiInit /\ [][ScaleNext]_vars

(***************************************************************************)
(* Properties.                                                             *)
(***************************************************************************)
\* The activation whose frame was just shown.
Flushed(fn) == shown /\ Running(fn)

WritesAt(line) == {k \in 1..Len(writes) : writes[k].line = line}

InStrip(p) == p \in 0..(numPixels - 1)

\* C1: in draw_and_erase every ramp write (line 82, the writes that are not
\* the clearing one) of the ascending range uses draw_color and every ramp
\* write of the descending range uses eraser.
C1_DrawsThenErases ==
    Flushed("draw_and_erase") =>
        \A k \in WritesAt(82) :
            writes[k].color = IF Top.pcl = "range0" THEN Top.color ELSE Top.second

\* The brightness (in tenths) of the frames of one pulse, as the claim
\* lists them: 9 rising, 8 falling.
PulseClaimed == <<1, 2, 3, 4, 5, 6, 7, 8, 9, 8, 7, 6, 5, 4, 3, 2, 1>>

\* The brightness (in tenths) of the frames of one pulse, amended: 9 rising,
\* then 9 falling from full brightness to 0.2.
PulseAmended == <<1, 2, 3, 4, 5, 6, 7, 8, 9, 10, 9, 8, 7, 6, 5, 4, 3, 2>>

\* Every frame of a pulse shows all pixels at the brightness 'tenths' lists
\* for it, and the pulse ends after exactly Len(tenths) frames.
PulseFollows(tenths) ==
    /\ Flushed("pulse") =>
          /\ Top.shows <= Len(tenths)
          /\ \A p \in 0..(numPixels - 1) :
                pixels[p] = alter_brightness(Top.color, tenths[Top.shows], 10)
    /\ (Running("pulse") /\ Finished(Top)) => Top.shows = Len(tenths)

C3_EleventhPixelCleared ==
    (Flushed("draw_and_erase") /\ Top.pcl = "range0" /\ Top.i >= 10) =>
        /\ pixels[Top.i - 10] = ColorValue("NONE")
        /\ \A j \in 0..9 :
              pixels[Top.i - j] = alter_brightness(writes[1].color, 10 - j, 10)

RunPlaylist ==
    <<CallSingleColor("CRYSTAL_BLUE"),
      CallAlternatingColors("CRYSTAL_BLUE", "PURE_WHITE"),
      CallPulseBetween(<<"WARM_WHITE", "CRYSTAL_BLUE">>),
      CallPulse("CRYSTAL_BLUE"), CallPulse("CRYSTAL_RED"),
      CallPulse("CRYSTAL_GREEN"), CallPulse("PURE_WHITE"),
      CallChristmasColors,
      CallCandyCane,
      CallDrawAndErase("CRYSTAL_BLUE", "WARM_WHITE"),
      CallDrawAndErase("CRYSTAL_RED", "WARM_WHITE"),
      CallDrawAndErase("CRYSTAL_GREEN", "WARM_WHITE"),
      CallDrawAndErase("PURE_WHITE", "WARM_WHITE"),
      CallVaporTrail("CRYSTAL_BLUE", 20, "NONE"),
      CallVaporTrail("CRYSTAL_RED", 20, "NONE"),
      CallVaporTrail("CRYSTAL_GREEN", 20, "NONE"),
      CallVaporTrail("PURE_WHITE", 20, "NONE")>>

SameCall(act, call) ==
    /\ act.fn = call.fn /\ act.color = call.color /\ act.second = call.second
    /\ act.trail = call.trail /\ act.colors = call.colors

\* C5: Run never returns, and whenever control is back in Run it makes
\* another call; the calls of its current cycle are a prefix of the fixed
\* playlist (so the call after the last vapor_trail is single_color again),
\* and the pattern running under Run is the last one called: a call returns
\* before the next is made.
C5_RunCycle ==
    /\ stack # << >> /\ stack[Len(stack)].fn = "Run"
    /\ Running("Run") => ENABLED Run
    /\ Len(calls) <= Len(RunPlaylist)
    /\ \A k \in 1..Len(calls) : calls[k] = RunPlaylist[k]
    /\ Len(stack) > 1 =>
          /\ calls # << >>
          /\ SameCall(stack[Len(stack) - 1], calls[Len(calls)])

\* The second cycle has begun: single_color is entered over what the last
\* vapor_trail left.
C5_Witness ==
    /\ Running("single_color") /\ Top.pcl = "call"
    /\ Len(calls) = 1
    /\ pixels[0] = alter_brightness("PURE_WHITE", 1, 20)

\* C6: each range of draw_and_erase flushes exactly N frames (2N a call),
\* and pixel 0 and pixel N-1 each get the ramp's first write (brightness
\* 1.0) in exactly one frame of each range.
C6_EndsVisitedOnce ==
    Flushed("draw_and_erase") =>
        /\ (Top.pcl = "range0" /\ ~(Top.i + 1 < numPixels)) =>
              /\ Top.shows = numPixels
              /\ headVisits[0] = 1 /\ headVisits[numPixels - 1] = 1
        /\ Finished(Top) =>
              /\ Top.shows = 2 * numPixels
              /\ headVisits[0] = 1 /\ headVisits[numPixels - 1] = 1

\* Each channel multiplied by tenths / 10 and rounded down.
FloorTenths(color, tenths) ==
    LET v == ColorValue(color)
    IN  Color((RedOf(v) * tenths) \div 10,
              (GreenOf(v) * tenths) \div 10,
              (BlueOf(v) * tenths) \div 10)

\* C7: for every named colour C and b = k/10, k in 0..10,
\* alter_brightness(C, b) is the 24-bit colour whose channels are
\* floor(channel(C) * k / 10); alter_brightness(C, 1.0) = C; the pixel
\* buffer is left as it was.
C7_AlterBrightnessFloors ==
    scaled # << >> =>
        /\ scaled.den = 10 /\ scaled.num <= 10 =>
              /\ scaled.value = FloorTenths(scaled.color, scaled.num)
              /\ scaled.value \in 0..(2 ^ 24 - 1)
        /\ scaled.num = scaled.den => scaled.value = ColorValue(scaled.color)
        /\ pixels = [p \in 0..(numPixels - 1) |-> 0]

C7_Witness ==
    /\ scaled # << >>
    /\ scaled.color = "WARM_WHITE" /\ scaled.num = 7 /\ scaled.den = 10
    /\ scaled.value = Color(178, 102, 28)

\* C8: on a strip of even length, after alternating_colors(A, B) every even
\* index holds A and every odd index holds B at full brightness, and
\* exactly one flush was issued, after all N writes.
C8_Alternating ==
    (Running("alternating_colors") /\ numPixels % 2 = 0) =>
        /\ shown =>
              /\ \A p \in 0..(numPixels - 1) :
                    pixels[p] = ColorValue(IF p % 2 = 0 THEN Top.color ELSE Top.second)
              /\ Len(writes) = numPixels
              /\ Top.shows = 1
              /\ Finished(Top)
        /\ ~shown => Top.shows = 0

C8_Witness ==
    /\ Flushed("alternating_colors") /\ numPixels = MaxPixels
    /\ Top.color = "CRYSTAL_RED" /\ Top.second = "WARM_WHITE"
    /\ pixels[0] = Color(255, 0, 0) /\ pixels[numPixels - 1] = Color(255, 147, 41)

\* C9: in vapor_trail with 2 <= trail <= N, a pixel the head has passed
\* holds trail_color at every later flush of the call; and when candy_cane
\* has got its vapor_trail back, every pixel is PURE_WHITE again.
C9_TrailColorBehindHead ==
    /\ (Flushed("vapor_trail") /\ Top.trail >= 2 /\ Top.trail <= numPixels) =>
          \A p \in 0..(Top.i - 1) : pixels[p] = ColorValue(Top.second)
    /\ (Running("candy_cane") /\ Top.pcl = "chaser") =>
          \A p \in 0..(numPixels - 1) : pixels[p] = ColorValue("PURE_WHITE")

\* C10: every index passed to _set_pixel_color lies in 0..N-1.
C10_IndexInStrip ==
    \A k \in 1..Len(writes) : InStrip(writes[k].index)


=============================================================================
